---- MODULE Spec2Model ----
(***************************************************************************)
(* Emoji collector: head-direction classifier (FaceTracker), expression    *)
(* classifier with its stability filter (EmojiMatcher) and the render loop *)
(* of ApplicationController.                                               *)
(*                                                                         *)
(* Landmark coordinates are JavaScript numbers.  They are held here as     *)
(* exact multiples of 1/ONE, and every input is a multiple of 0.0001, so   *)
(* the divisions by 2, 3 and 4 of the source are exact integer divisions.  *)
(* IEEE rounding of the JavaScript arithmetic is not modelled.             *)
(*                                                                         *)
(* Specifications: SpecDirection (one calculateDirection call on a drawn   *)
(* frame), SpecRules (one analyzeExpression call on a drawn frame),        *)
(* SpecMatcher (a sequence of analyzeExpression calls on one EmojiMatcher),*)
(* SpecInstances (calls on two EmojiMatcher instances, interleaved),       *)
(* SpecCounters (updateUI and the emoji counters of main.ts) and Spec (the *)
(* application: start, render loop, frame cycles, stop).                   *)
(***************************************************************************)
EXTENDS Integers, Sequences, FiniteSets, TLC

\* ------------------------------------------------------------------ numbers

\* The normalised coordinate 1.0 (Landmark.x, Landmark.y are "Normalized 0-1").
ONE == 240000

\* The decimal literal n/1000 of the source, e.g. Milli(15) is 0.015.
Milli(n) == n * (ONE \div 1000)

\* Math.abs
Abs(v) == IF v < 0 THEN 0 - v ELSE v

\* ---------------------------------------------------------------- landmarks

\* The landmark indices read by calculateDirection and by EmojiMatcher.
UsedIdx ==
  {0, 1, 12, 13, 14, 15, 17, 33, 61, 63, 70, 105, 143, 144, 145, 152, 153,
   157, 158, 159, 173, 263, 291, 293, 300, 334, 372, 373, 374, 380, 384,
   385, 386, 398}

Pt(px, py) == [x |-> px, y |-> py]

\* A Landmark[]: its length and the points at the indices the code reads.
\* tests/FaceTracker.test.ts builds its frames this way: every point at
\* (0.5, 0.5), then nose tip, eyes and chin.
createMockLandmarks(noseTipX, noseTipY) ==
  [length |-> 468,
   pt |-> [i \in UsedIdx |->
             CASE i = 1   -> Pt(noseTipX, noseTipY)
               [] i = 33  -> Pt(Milli(400), Milli(400))
               [] i = 263 -> Pt(Milli(600), Milli(400))
               [] i = 152 -> Pt(Milli(500), Milli(700))
               [] OTHER   -> Pt(Milli(500), Milli(500))]]

\* The same frame cut or extended to n landmarks (MediaPipe delivers 468, or
\* 478 with refined landmarks; a shorter list is "insufficient data").
WithLength(l, n) == [l EXCEPT !.length = n]

\* A full frame of a face whose features are given by p (all lengths in
\* coordinate units): the eyelid gaps of the two eyes, the lip gap, the mouth
\* width, the sideways shift of the lip centres (pucker), the height of the
\* mouth corners above the mouth centre (smile), the height of the eyebrows
\* above the eye tops (brow) and the height difference of the eyes (tilt).
Face(p) ==
  [length |-> 468,
   pt |-> [i \in UsedIdx |->
     CASE i = 1   -> Pt(Milli(500), Milli(500))
       [] i = 152 -> Pt(Milli(500), Milli(700))
       [] i = 33  -> Pt(Milli(400), Milli(400))
       [] i = 263 -> Pt(Milli(600), Milli(400) + p.tilt)
       [] i = 13  -> Pt(Milli(500), Milli(600))
       [] i = 14  -> Pt(Milli(500), Milli(600) + p.mouthOpen + Milli(2))
       [] i = 12  -> Pt(Milli(500), Milli(602))
       [] i = 15  -> Pt(Milli(500), Milli(600) + p.mouthOpen)
       [] i = 61  -> Pt(Milli(500) - p.width \div 2, Milli(600) - p.smile)
       [] i = 291 -> Pt(Milli(500) + p.width \div 2, Milli(600) - p.smile)
       [] i = 0   -> Pt(Milli(500) + p.pucker, Milli(580))
       [] i = 17  -> Pt(Milli(500) + p.pucker, Milli(620))
       [] i \in {70, 300}  -> Pt(Milli(500), Milli(400) - p.brow - Milli(3))
       [] i \in {63, 293}  -> Pt(Milli(500), Milli(400) - p.brow)
       [] i \in {105, 334} -> Pt(Milli(500), Milli(400) - p.brow + Milli(3))
       [] i \in {159, 158, 157, 173} -> Pt(Milli(500), Milli(400))
       [] i \in {145, 144, 143, 153} -> Pt(Milli(500), Milli(400) + p.eyeL)
       [] i \in {386, 385, 384, 398} -> Pt(Milli(500), Milli(400))
       [] i \in {374, 373, 372, 380} -> Pt(Milli(500), Milli(400) + p.eyeR)
       [] OTHER -> Pt(Milli(500), Milli(500))]]

\* ------------------------------------------------- FaceTracker.calculateDirection

faceCenterX(l) == (l.pt[33].x + l.pt[263].x) \div 2

faceCenterY(l) == (l.pt[33].y + l.pt[263].y + l.pt[152].y) \div 3

\* Mutant: the subtraction reversed (centre minus nose tip).
horizontalOffset_negated(l) == faceCenterX(l) - l.pt[1].x

horizontalOffset(l) == l.pt[1].x - faceCenterX(l)

verticalOffset(l) == l.pt[1].y - faceCenterY(l)

\* Mutant: only the empty list is treated as insufficient.
insufficientLandmarks_emptyOnly(l) == l.length = 0

\* line 196: fewer than 468 landmarks is insufficient data
insufficientLandmarks(l) == l.length < 468

\* Mutant: the horizontal axis is tested whatever the vertical offset is.
horizontalWins_always(h, v) == TRUE

\* line 222: the axis tested against the threshold
horizontalWins(h, v) == Abs(h) > Abs(v)

\* Mutant: an offset equal to the threshold already gives a direction.
horizontalDirection_inclusive(h, threshold) ==
  IF h >= threshold THEN "left"
  ELSE IF h <= 0 - threshold THEN "right"
  ELSE "center"

\* Mutant: the unmirrored mapping.
horizontalDirection_unmirrored(h, threshold) ==
  IF h > threshold THEN "right"
  ELSE IF h < 0 - threshold THEN "left"
  ELSE "center"

\* lines 223-227: the camera view is mirrored
horizontalDirection(h, threshold) ==
  IF h > threshold THEN "left"
  ELSE IF h < 0 - threshold THEN "right"
  ELSE "center"

\* Mutant: no dead zone around the face centre.
verticalDirection_noDeadZone(v, threshold) ==
  IF v >= 0 THEN "down" ELSE "up"

\* Mutant: up and down exchanged.
verticalDirection_swapped(v, threshold) ==
  IF v > threshold THEN "up"
  ELSE IF v < 0 - threshold THEN "down"
  ELSE "center"

\* lines 229-233
verticalDirection(v, threshold) ==
  IF v > threshold THEN "down"
  ELSE IF v < 0 - threshold THEN "up"
  ELSE "center"

calculateDirection(l, threshold) ==
  IF insufficientLandmarks(l) THEN "center"
  ELSE IF horizontalWins(horizontalOffset(l), verticalOffset(l))
       THEN horizontalDirection(horizontalOffset(l), threshold)
       ELSE verticalDirection(verticalOffset(l), threshold)

HeadDirection == {"center", "left", "right", "up", "down"}

\* ------------------------------------------------------------- EmojiMatcher

Expression ==
  {"neutral", "happy", "very_happy", "sad", "surprised", "angry", "wink",
   "kiss", "tongue_out", "thinking", "sleepy", "confused"}

\* The glyphs, by code point.
emojiMap ==
  [e \in Expression |->
     CASE e = "neutral"    -> "U+1F610"
       [] e = "happy"      -> "U+1F642"
       [] e = "very_happy" -> "U+1F604"
       [] e = "sad"        -> "U+1F622"
       [] e = "surprised"  -> "U+1F62E"
       [] e = "angry"      -> "U+1F620"
       [] e = "wink"       -> "U+1F609"
       [] e = "kiss"       -> "U+1F618"
       [] e = "tongue_out" -> "U+1F61B"
       [] e = "thinking"   -> "U+1F914"
       [] e = "sleepy"     -> "U+1F634"
       [] e = "confused"   -> "U+1F615"]

calculateMouthOpenness(l) ==
  LET outerDistance == Abs(l.pt[14].y - l.pt[13].y)
      innerDistance == Abs(l.pt[15].y - l.pt[12].y)
  IN (outerDistance + innerDistance) \div 2

calculateMouthWidth(l) == Abs(l.pt[291].x - l.pt[61].x)

calculateSmileLevel(l) ==
  LET mouthCenterY == (l.pt[0].y + l.pt[17].y) \div 2
      avgCornerY == (l.pt[61].y + l.pt[291].y) \div 2
      mouthWidth == Abs(l.pt[291].x - l.pt[61].x)
      verticalSmile == mouthCenterY - avgCornerY
      widthFactor == IF mouthWidth > Milli(150) THEN Milli(20) ELSE 0
  IN verticalSmile + widthFactor

calculateEyebrowRaise(l) ==
  LET leftBrowAvg == (l.pt[70].y + l.pt[63].y + l.pt[105].y) \div 3
      rightBrowAvg == (l.pt[300].y + l.pt[293].y + l.pt[334].y) \div 3
      leftDistance == l.pt[159].y - leftBrowAvg
      rightDistance == l.pt[386].y - rightBrowAvg
  IN (leftDistance + rightDistance) \div 2

topIndices(eye) ==
  IF eye = "left" THEN <<159, 158, 157, 173>> ELSE <<386, 385, 384, 398>>

bottomIndices(eye) ==
  IF eye = "left" THEN <<145, 144, 143, 153>> ELSE <<374, 373, 372, 380>>

RECURSIVE totalDistance(_, _, _)
\* the loop of calculateEyeOpenness over the first n index pairs
totalDistance(l, eye, n) ==
  IF n = 0 THEN 0
  ELSE totalDistance(l, eye, n - 1)
         + Abs(l.pt[bottomIndices(eye)[n]].y - l.pt[topIndices(eye)[n]].y)

calculateEyeOpenness(l, eye) ==
  LET numPoints ==
        IF Len(topIndices(eye)) < Len(bottomIndices(eye))
        THEN Len(topIndices(eye)) ELSE Len(bottomIndices(eye))
  IN totalDistance(l, eye, numPoints) \div numPoints

calculateLipsPucker(l) ==
  LET lipCenterX == (l.pt[0].x + l.pt[17].x) \div 2
      cornerCenterX == (l.pt[61].x + l.pt[291].x) \div 2
  IN Abs(lipCenterX - cornerCenterX)

\* deltaY / (deltaX + 0.0001), kept as the quotient's two terms
calculateHeadTilt(l) ==
  [num |-> l.pt[263].y - l.pt[33].y,
   den |-> (l.pt[263].x - l.pt[33].x) + ONE \div 10000]

\* Math.abs(q) > n/1000 for a quotient q of JavaScript numbers: a non-zero
\* number over zero is an infinity, zero over zero is NaN and exceeds nothing.
absExceedsMilli(q, n) ==
  IF q.den = 0 THEN q.num # 0
  ELSE Abs(q.num) * 1000 > n * Abs(q.den)

\* lines 65-72 and 78: the metrics of one frame
calculateMetrics(l) ==
  [mouthOpenness |-> calculateMouthOpenness(l),
   smileLevel |-> calculateSmileLevel(l),
   eyebrowRaise |-> calculateEyebrowRaise(l),
   leftEyeOpenness |-> calculateEyeOpenness(l, "left"),
   rightEyeOpenness |-> calculateEyeOpenness(l, "right"),
   mouthWidth |-> calculateMouthWidth(l),
   lipsPucker |-> calculateLipsPucker(l),
   headTilt |-> calculateHeadTilt(l),
   eyeDifference |->
     Abs(calculateEyeOpenness(l, "left") - calculateEyeOpenness(l, "right"))]

\* Mutant: every rule reports the confidence of the default.
Detected_flat(e, c) == [expression |-> e, confidence |-> Milli(500)]

Detected(e, c) == [expression |-> e, confidence |-> c]

\* Mutant: the HAPPY rule tested before the VERY_HAPPY rule.
detectExpression_happyFirst(m) ==
  IF m.eyeDifference > Milli(12)
       /\ (m.leftEyeOpenness < Milli(15) \/ m.rightEyeOpenness < Milli(15))
  THEN Detected("wink", Milli(900))
  ELSE IF m.lipsPucker > Milli(15) /\ m.mouthWidth < Milli(120)
  THEN Detected("kiss", Milli(850))
  ELSE IF m.mouthOpenness > Milli(45) /\ m.eyebrowRaise > Milli(35)
  THEN Detected("surprised", Milli(900))
  ELSE IF m.mouthOpenness > Milli(50) /\ m.mouthWidth > Milli(140)
            /\ m.smileLevel > Milli(10)
  THEN Detected("tongue_out", Milli(800))
  ELSE IF m.smileLevel > Milli(25)
  THEN Detected("happy", Milli(850))
  ELSE IF m.smileLevel > Milli(45) /\ m.mouthWidth > Milli(150)
  THEN Detected("very_happy", Milli(900))
  ELSE IF m.smileLevel < 0 - Milli(15)
  THEN Detected("sad", Milli(800))
  ELSE IF absExceedsMilli(m.headTilt, 30) /\ m.eyebrowRaise > Milli(25)
            /\ m.eyebrowRaise < Milli(40)
  THEN Detected("thinking", Milli(750))
  ELSE IF m.leftEyeOpenness < Milli(18) /\ m.rightEyeOpenness < Milli(18)
            /\ Abs(m.eyeDifference) < Milli(5)
  THEN Detected("sleepy", Milli(800))
  ELSE IF m.eyebrowRaise > Milli(20) /\ m.eyebrowRaise < Milli(35)
            /\ Abs(m.smileLevel) < Milli(15)
  THEN Detected("confused", Milli(700))
  ELSE IF m.eyebrowRaise < Milli(25) /\ m.smileLevel < Milli(5)
            /\ m.mouthWidth < Milli(130)
  THEN Detected("angry", Milli(750))
  ELSE Detected("neutral", Milli(500))

\* lines 74-132: the if / else-if ladder
detectExpression(m) ==
  IF m.eyeDifference > Milli(12)
       /\ (m.leftEyeOpenness < Milli(15) \/ m.rightEyeOpenness < Milli(15))
  THEN Detected("wink", Milli(900))
  ELSE IF m.lipsPucker > Milli(15) /\ m.mouthWidth < Milli(120)
  THEN Detected("kiss", Milli(850))
  ELSE IF m.mouthOpenness > Milli(45) /\ m.eyebrowRaise > Milli(35)
  THEN Detected("surprised", Milli(900))
  ELSE IF m.mouthOpenness > Milli(50) /\ m.mouthWidth > Milli(140)
            /\ m.smileLevel > Milli(10)
  THEN Detected("tongue_out", Milli(800))
  ELSE IF m.smileLevel > Milli(45) /\ m.mouthWidth > Milli(150)
  THEN Detected("very_happy", Milli(900))
  ELSE IF m.smileLevel > Milli(25)
  THEN Detected("happy", Milli(850))
  ELSE IF m.smileLevel < 0 - Milli(15)
  THEN Detected("sad", Milli(800))
  ELSE IF absExceedsMilli(m.headTilt, 30) /\ m.eyebrowRaise > Milli(25)
            /\ m.eyebrowRaise < Milli(40)
  THEN Detected("thinking", Milli(750))
  ELSE IF m.leftEyeOpenness < Milli(18) /\ m.rightEyeOpenness < Milli(18)
            /\ Abs(m.eyeDifference) < Milli(5)
  THEN Detected("sleepy", Milli(800))
  ELSE IF m.eyebrowRaise > Milli(20) /\ m.eyebrowRaise < Milli(35)
            /\ Abs(m.smileLevel) < Milli(15)
  THEN Detected("confused", Milli(700))
  ELSE IF m.eyebrowRaise < Milli(25) /\ m.smileLevel < Milli(5)
            /\ m.mouthWidth < Milli(130)
  THEN Detected("angry", Milli(750))
  ELSE Detected("neutral", Milli(500))

\* Mutant: only the empty list is treated as too short.
tooFewLandmarks_emptyOnly(l) == l.length = 0

\* line 56
tooFewLandmarks(l) == l.length < 468

\* Mutant: a differing frame takes one off the counter.
smoothedStability_countsDown(detectedExpression, last, stability) ==
  IF detectedExpression = last THEN stability + 1 ELSE stability - 1

\* Mutant: a differing frame counts as the first of its run.
smoothedStability_restartsAtOne(detectedExpression, last, stability) ==
  IF detectedExpression = last THEN stability + 1 ELSE 1

\* lines 135-139
smoothedStability(detectedExpression, last, stability) ==
  IF detectedExpression = last THEN stability + 1 ELSE 0

\* Mutant: the two conditions joined by "and".
committedExpression_and(detectedExpression, last, stability) ==
  IF stability >= 2 /\ detectedExpression # last
  THEN detectedExpression
  ELSE last

\* lines 142-144
committedExpression(detectedExpression, last, stability) ==
  IF stability >= 2 \/ detectedExpression # last
  THEN detectedExpression
  ELSE last

\* Mutant: every label is reported with the NEUTRAL glyph.
expressionResult_neutralGlyph(expression, confidence) ==
  [expression |-> expression, emoji |-> emojiMap["neutral"],
   confidence |-> confidence]

\* lines 146-150: the ExpressionResult of a full frame
expressionResult(expression, confidence) ==
  [expression |-> expression, emoji |-> emojiMap[expression],
   confidence |-> confidence]

\* Mutant: the degraded call commits NEUTRAL.
degradedOutcome_commitsNeutral(last, stability) ==
  [result |-> [expression |-> "neutral", emoji |-> emojiMap["neutral"],
               confidence |-> 0],
   lastExpression |-> "neutral",
   expressionStability |-> 0,
   detectedExpression |-> "none"]

\* lines 56-62: the return for a frame that is too short
degradedOutcome(last, stability) ==
  [result |-> [expression |-> "neutral", emoji |-> emojiMap["neutral"],
               confidence |-> 0],
   lastExpression |-> last,
   expressionStability |-> stability,
   detectedExpression |-> "none"]

\* analyzeExpression on the frame l from the rolling state (last, stability):
\* the returned ExpressionResult, the rolling state it leaves and the raw
\* classification of the call ("none" when the frame was too short).
analyzeExpression(l, last, stability) ==
  IF tooFewLandmarks(l)
  THEN degradedOutcome(last, stability)
  ELSE LET d == detectExpression(calculateMetrics(l))
           st == smoothedStability(d.expression, last, stability)
           le == committedExpression(d.expression, last, st)
       IN [result |-> expressionResult(le, d.confidence),
           lastExpression |-> le,
           expressionStability |-> st,
           detectedExpression |-> d.expression]

\* -------------------------------------------------------------------- state

VARIABLES
  pc,                  \* position of the call under study: "input", "returned"
  landmarks,           \* the Landmark[] argument of the latest classifier call
  directionThreshold,  \* FaceTracker.directionThreshold
  direction,           \* value returned by the latest calculateDirection call
  lastExpression,      \* EmojiMatcher.lastExpression
  expressionStability, \* EmojiMatcher.expressionStability
  detectedExpression,  \* analyzeExpression's local of the latest call, or "none"
  exprResult,          \* ExpressionResult returned by the latest call, or "none"
  reportedBefore,      \* history: lastExpression before the latest call
  lastRaw,             \* history: raw classification of the latest full frame
  rawRepeated,         \* history: the latest full frame's raw classification
                       \* was also that of the full frame before it
  appPc,               \* position of initializeApplication / start()
  state,               \* ApplicationController.state
  errorText,           \* text of the error-text element, "none" while hidden
  borderColor,         \* borderElement.style.borderColor
  videoElement,        \* CameraManager.videoElement is not null
  ready,               \* FaceTracker.ready (faceMesh is not null)
  lastResult,          \* FaceTracker.lastResult
  isProcessing,        \* ApplicationController.isProcessing
  animationFrameId,    \* ApplicationController.animationFrameId: "null", "id"
  rafPending,          \* the browser holds a requestAnimationFrame callback
  cycles,              \* the processFrame calls that have not settled
  lastCycle,           \* history: how the latest settled cycle went
  lastTick,            \* history: what the latest renderLoop call did
  cameraError,         \* the CameraError CameraManager.initialize threw
  currentTime,         \* Date.now() as read by the latest updateUI call, 0
                       \* before the first call
  uiLastExpression,    \* main.ts lastExpression: the expression last counted
  lastRecognitionTime, \* main.ts lastRecognitionTime
  emojiCounts,         \* main.ts emojiCounts
  lastIncrement,       \* history: the latest increment of a counter
  matchers             \* the fields of each of several EmojiMatcher instances

trackerVars == <<directionThreshold, direction>>

matcherVars == <<lastExpression, expressionStability>>

callVars == <<detectedExpression, exprResult>>

historyVars == <<reportedBefore, lastRaw, rawRepeated>>

appVars ==
  <<appPc, state, errorText, borderColor, videoElement, ready, lastResult,
    isProcessing, animationFrameId, rafPending, cycles, lastCycle, lastTick,
    cameraError>>

uiVars ==
  <<currentTime, uiLastExpression, lastRecognitionTime, emojiCounts,
    lastIncrement>>

instanceVars == <<matchers>>

vars ==
  <<pc, landmarks, trackerVars, matcherVars, callVars, historyVars, appVars,
    uiVars, instanceVars>>

\* A newly constructed EmojiMatcher, on which no call has been made.
InitMatcher ==
  /\ lastExpression = "neutral"
  /\ expressionStability = 0
  /\ detectedExpression = "none"
  /\ exprResult = "none"
  /\ reportedBefore = "neutral"
  /\ lastRaw = "none"
  /\ rawRepeated = FALSE

\* A FaceTracker on which calculateDirection has not been called.
InitTracker ==
  /\ directionThreshold = Milli(150)
  /\ direction = "none"

\* No CameraError has been thrown.
NoCameraError == [type |-> "none", message |-> "none"]

\* The page before initializeApplication has run.
InitApp ==
  /\ appPc = "loaded"
  /\ state = [cameraActive |-> FALSE, trackerReady |-> FALSE,
              currentDirection |-> "center", fps |-> 0, error |-> "null",
              emoji |-> "U+1F610", expression |-> "neutral"]
  /\ errorText = "none"
  /\ borderColor = "unset"
  /\ videoElement = FALSE
  /\ ready = FALSE
  /\ lastResult = [isNull |-> TRUE]
  /\ isProcessing = FALSE
  /\ animationFrameId = "null"
  /\ rafPending = FALSE
  /\ cycles = << >>
  /\ lastCycle = [outcome |-> "none", log |-> << >>, detected |-> FALSE,
                  result |-> [isNull |-> TRUE]]
  /\ lastTick = "none"
  /\ cameraError = NoCameraError

\* main.ts before the first updateUI call.
InitUI ==
  /\ currentTime = 0
  /\ uiLastExpression = ""
  /\ lastRecognitionTime = 0
  /\ emojiCounts = [e \in Expression |-> 0]
  /\ lastIncrement = [at |-> 0 - 1, expression |-> ""]

\* The EmojiMatcher instances: two trackers, each with its own matcher.
MatcherIds == {"first", "second"}

\* No ExpressionResult has been returned.
NoExpressionResult == [expression |-> "none", emoji |-> "none", confidence |-> 0]

\* new EmojiMatcher(), with the result of its latest call and, as history,
\* the frames it has been given so far
newMatcher ==
  [lastExpression |-> "neutral", expressionStability |-> 0,
   result |-> NoExpressionResult, fed |-> << >>]

InitInstances == matchers = [i \in MatcherIds |-> newMatcher]

\* ------------------------------------------ calculateDirection as a function

\* Nose tip positions: offsets of 0, +-0.05, +-0.15 and +-0.2 from (0.5, 0.5).
NoseCoords ==
  {Milli(300), Milli(350), Milli(450), Milli(500), Milli(550), Milli(650),
   Milli(700)}

\* Chin heights: face centre y of 0.5 (the test frames) and of 0.51.
ChinCoords == {Milli(700), Milli(730)}

\* Lengths of the landmark list: empty, short, one short of full, full, refined.
FrameLengths == {0, 100, 467, 468, 478}

\* directionThreshold: 0, DEFAULT_CONFIG (0.05) and the FaceTracker default (0.15).
DirThresholds == {0, Milli(50), Milli(150)}

DirFrames ==
  {WithLength([createMockLandmarks(nx, ny) EXCEPT !.pt[152].y = cy], n) :
     nx \in NoseCoords, ny \in NoseCoords, cy \in ChinCoords, n \in FrameLengths}

InitDirection ==
  /\ pc = "input"
  /\ landmarks \in DirFrames
  /\ directionThreshold \in DirThresholds
  /\ direction = "none"
  /\ InitMatcher
  /\ InitApp
  /\ InitUI
  /\ InitInstances

CallCalculateDirection ==
  /\ pc = "input"
  /\ direction' = calculateDirection(landmarks, directionThreshold)
  /\ pc' = "returned"
  /\ UNCHANGED <<landmarks, directionThreshold, matcherVars, callVars,
                 historyVars, appVars, uiVars, instanceVars>>

NextDirection == CallCalculateDirection

SpecDirection == InitDirection /\ [][NextDirection]_vars

\* --------------------------------------------------- EmojiMatcher as a process

\* Cap on expressionStability, which the code increments without limit.
MaxStability == 3

\* One analyzeExpression(l) call on the matcher.
Analyze(l) ==
  LET r == analyzeExpression(l, lastExpression, expressionStability)
  IN /\ r.expressionStability <= MaxStability
     /\ landmarks' = l
     /\ lastExpression' = r.lastExpression
     /\ expressionStability' = r.expressionStability
     /\ detectedExpression' = r.detectedExpression
     /\ exprResult' = r.result
     /\ reportedBefore' = lastExpression
     /\ IF r.detectedExpression = "none"
        THEN UNCHANGED <<lastRaw, rawRepeated>>
        ELSE /\ lastRaw' = r.detectedExpression
             /\ rawRepeated' = (r.detectedExpression = lastRaw)

\* A face at rest: eyes open, mouth closed, eyebrows high, head level.
Relaxed ==
  [eyeL |-> Milli(25), eyeR |-> Milli(25), mouthOpen |-> Milli(10),
   width |-> Milli(140), pucker |-> 0, smile |-> 0, brow |-> Milli(50),
   tilt |-> 0]

\* One face for each expression.
Poses ==
  {Relaxed,
   [Relaxed EXCEPT !.eyeL = Milli(2)],
   [Relaxed EXCEPT !.pucker = Milli(20), !.width = Milli(100)],
   [Relaxed EXCEPT !.mouthOpen = Milli(60)],
   [Relaxed EXCEPT !.mouthOpen = Milli(60), !.width = Milli(146),
                   !.smile = Milli(12), !.brow = Milli(30)],
   [Relaxed EXCEPT !.smile = Milli(30), !.width = Milli(160)],
   [Relaxed EXCEPT !.smile = Milli(30)],
   [Relaxed EXCEPT !.smile = 0 - Milli(20)],
   [Relaxed EXCEPT !.tilt = Milli(10), !.brow = Milli(30)],
   [Relaxed EXCEPT !.eyeL = Milli(16), !.eyeR = Milli(16)],
   [Relaxed EXCEPT !.brow = Milli(30)],
   [Relaxed EXCEPT !.brow = Milli(10), !.width = Milli(120)]}

\* Faces far beyond the threshold of their rule: a corner-to-centre drop of
\* 0.06 (SAD fires below -0.015) and an eye opening of 0 on one side.
StrongPoses ==
  {[Relaxed EXCEPT !.smile = 0 - Milli(60)],
   [Relaxed EXCEPT !.eyeR = 0]}

\* Frames of a head rolled onto its side, the eye corners one above the
\* other: landmark 263 is 0.0001 left of landmark 33 (x = 0.0001 and 0.0002,
\* which JavaScript subtracts exactly) at a different or at the same height,
\* or straight above it.
RolledFrames ==
  {[Face(Relaxed) EXCEPT !.pt[33] = Pt(2 * (ONE \div 10000), Milli(400)),
                         !.pt[263] = Pt(ONE \div 10000, Milli(450))],
   [Face(Relaxed) EXCEPT !.pt[33] = Pt(2 * (ONE \div 10000), Milli(400)),
                         !.pt[263] = Pt(ONE \div 10000, Milli(400))],
   [Face(Relaxed) EXCEPT !.pt[33] = Pt(Milli(500), Milli(400)),
                         !.pt[263] = Pt(Milli(500), Milli(450))]}

\* The frames fed to the matcher: the poses, and lists that are too short.
MatcherFrames ==
  {Face(p) : p \in Poses \cup StrongPoses}
    \cup RolledFrames
    \cup {WithLength(Face([Relaxed EXCEPT !.smile = Milli(30)]), n) :
            n \in {0, 100, 467}}

InitMatcherProcess ==
  /\ pc = "input"
  /\ landmarks = WithLength(Face(Relaxed), 0)
  /\ InitTracker
  /\ InitMatcher
  /\ InitApp
  /\ InitUI
  /\ InitInstances

CallAnalyzeExpression ==
  /\ \E l \in MatcherFrames : Analyze(l)
  /\ pc' = "returned"
  /\ UNCHANGED <<trackerVars, appVars, uiVars, instanceVars>>

NextMatcher == CallAnalyzeExpression

SpecMatcher == InitMatcherProcess /\ [][NextMatcher]_vars

\* -------------------------------------------- the rule ladder as a function

EyeGaps == {Milli(2), Milli(15), Milli(17), Milli(25)}

LipGaps == {Milli(10), Milli(48), Milli(60)}

MouthWidths == {Milli(100), Milli(126), Milli(146), Milli(160)}

Puckers == {0, Milli(20)}

Smiles == {0 - Milli(20), 0, Milli(12), Milli(30), Milli(50)}

Brows == {Milli(10), Milli(22), Milli(30), Milli(38), Milli(50)}

Tilts == {0, Milli(10)}

RuleFrames ==
  {Face([eyeL |-> el, eyeR |-> er, mouthOpen |-> mo, width |-> w,
         pucker |-> pk, smile |-> sm, brow |-> br, tilt |-> t]) :
     el \in EyeGaps, er \in EyeGaps, mo \in LipGaps, w \in MouthWidths,
     pk \in Puckers, sm \in Smiles, br \in Brows, t \in Tilts}

InitRules ==
  /\ pc = "input"
  /\ landmarks \in RuleFrames
  /\ InitTracker
  /\ InitMatcher
  /\ InitApp
  /\ InitUI
  /\ InitInstances

ClassifyFrame ==
  /\ pc = "input"
  /\ Analyze(landmarks)
  /\ pc' = "returned"
  /\ UNCHANGED <<trackerVars, appVars, uiVars, instanceVars>>

NextRules == ClassifyFrame

SpecRules == InitRules /\ [][NextRules]_vars

\* ------------------------------------------------ several EmojiMatcher instances

\* Cap on the number of frames given to one instance.
MaxFed == 3

\* The frames given to the instances: at rest, smiling, winking, too short.
InstanceFrames ==
  {Face(Relaxed), Face([Relaxed EXCEPT !.smile = Milli(30)]),
   Face([Relaxed EXCEPT !.eyeL = Milli(2)]),
   WithLength(Face([Relaxed EXCEPT !.smile = Milli(30)]), 467)}

\* Mutant: the field is static, one storage for all instances.
fieldAfterCall_static(owner, called, written, old) == written

\* "this.field = written" in a method called on the instance `called`: the
\* value the field of the instance `owner` holds afterwards
fieldAfterCall(owner, called, written, old) ==
  IF owner = called THEN written ELSE old

\* analyzeExpression(l) called on the instance i.
AnalyzeOn(i, l) ==
  LET r == analyzeExpression(l, matchers[i].lastExpression,
                             matchers[i].expressionStability)
  IN /\ Len(matchers[i].fed) < MaxFed
     /\ matchers' =
          [j \in MatcherIds |->
             [lastExpression |->
                fieldAfterCall(j, i, r.lastExpression,
                               matchers[j].lastExpression),
              expressionStability |->
                fieldAfterCall(j, i, r.expressionStability,
                               matchers[j].expressionStability),
              result |-> IF j = i THEN r.result ELSE matchers[j].result,
              fed |-> IF j = i THEN Append(matchers[j].fed, l)
                      ELSE matchers[j].fed]]

InitInstancesProcess ==
  /\ pc = "input"
  /\ landmarks = WithLength(Face(Relaxed), 0)
  /\ InitTracker
  /\ InitMatcher
  /\ InitApp
  /\ InitUI
  /\ InitInstances

CallOnInstance ==
  /\ \E i \in MatcherIds, l \in InstanceFrames : AnalyzeOn(i, l)
  /\ UNCHANGED <<pc, landmarks, trackerVars, matcherVars, callVars,
                 historyVars, appVars, uiVars>>

NextInstances == CallOnInstance

SpecInstances == InitInstancesProcess /\ [][NextInstances]_vars

\* ---------------------------------------------------------- the application

\* DEFAULT_CONFIG.borders, which main.ts hands to the RenderingEngine
borderColors ==
  [d \in HeadDirection |->
     CASE d = "center" -> "#667eea"
       [] d = "left"   -> "#2196F3"
       [] d = "right"  -> "#FF9800"
       [] d = "up"     -> "#9C27B0"
       [] d = "down"   -> "#F44336"]

\* RenderingEngine.borderColors as constructed, before initialize replaces it
\* by the configured map
builtInBorderColors ==
  [d \in HeadDirection |->
     CASE d = "center" -> "#667eea"
       [] d = "left"   -> "#2196F3"
       [] d = "right"  -> "#FF9800"
       [] d = "up"     -> "#9C27B0"
       [] d = "down"   -> "#F44336"]

\* Mutant: the border keeps the colour of CENTER.
updateBorder_centerOnly(d) == borderColors["center"]

\* RenderingEngine.updateBorder: the colour given to the border element
updateBorder(d) == borderColors[d]

CameraErrorTypes == {"permission_denied", "not_found", "not_readable", "unknown"}

\* What getUserMedia (or the check before it) throws: the DOMException names
\* mapError knows, the Error of the missing API, a named error without a
\* message, and a value without a name.
NativeErrors ==
  {[name |-> n, message |-> "native"] :
     n \in {"NotAllowedError", "PermissionDeniedError", "NotFoundError",
            "DevicesNotFoundError", "NotReadableError", "TrackStartError"}}
    \cup {[name |-> "Error", message |-> "getUserMedia not supported"],
          [name |-> "AbortError", message |-> ""],
          [name |-> "", message |-> "native"]}

\* CameraManager.mapError: the CameraError, a plain object.  The default case
\* appends the native message; the only native message that reaches it here is
\* that of the missing API.
mapError(error) ==
  IF error.name # ""
  THEN CASE error.name \in {"NotAllowedError", "PermissionDeniedError"} ->
              [type |-> "permission_denied",
               message |-> "Camera access was denied. Please grant camera permissions to use this application."]
         [] error.name \in {"NotFoundError", "DevicesNotFoundError"} ->
              [type |-> "not_found",
               message |-> "No camera device found. Please connect a camera and refresh the page."]
         [] error.name \in {"NotReadableError", "TrackStartError"} ->
              [type |-> "not_readable",
               message |-> "Camera is in use by another application. Please close other applications using the camera."]
         [] OTHER ->
              [type |-> "unknown",
               message |->
                 IF error.message # ""
                 THEN "An unexpected error occurred while accessing the camera: getUserMedia not supported"
                 ELSE "An unexpected error occurred while accessing the camera: Unknown error"]
  ELSE [type |-> "unknown",
        message |-> "An unexpected error occurred while accessing the camera. Please refresh the page."]

\* A value a promise rejected with: an Error instance or a plain object.
Thrown(isError, message) == [isError |-> isError, message |-> message]

\* The catch of start(): the message handed to handleError
startCatchMessage(error) ==
  IF error.isError THEN error.message ELSE "Unknown error occurred"

\* The catch of initializeApplication: the message handed to displayError
mainCatchMessage(error) ==
  IF error.isError THEN error.message ELSE "An unexpected error occurred"

\* Values Math.round computes for state.fps; the clock is not modelled.
MeasuredFps == {15, 30}

\* updateFPS: state.fps is kept, or replaced once a second has passed
updateFPS(fps) == {fps} \cup MeasuredFps

\* FaceTracker.lastResult = null
NullResult == [isNull |-> TRUE]

\* The empty landmark list; its points are beyond its length and never read.
noLandmarks == WithLength(Face(Relaxed), 0)

\* The result of a frame without a face (handleResults, processFrame default).
NoFace ==
  [detected |-> FALSE, landmarks |-> noLandmarks, direction |-> "center",
   confidence |-> 0, emoji |-> "undefined", expression |-> "undefined"]

\* Mutant: the confidence of the expression analysis is passed on.
detectedResult_ownConfidence(l, dir, analysed) ==
  [detected |-> TRUE, landmarks |-> l, direction |-> dir,
   confidence |-> analysed.confidence,
   emoji |-> analysed.emoji,
   expression |-> analysed.expression]

\* The result handleResults stores for a frame with a face.
detectedResult(l, dir, analysed) ==
  [detected |-> TRUE, landmarks |-> l, direction |-> dir, confidence |-> ONE,
   emoji |-> analysed.emoji,
   expression |-> analysed.expression]

\* The value processFrame returns once send has resolved.
processFrameResult(stored) == IF stored # NullResult THEN stored ELSE NoFace

\* Faces the landmark model delivers: at rest and centred, smiling with the
\* nose 0.1 right of the centre, winking with the nose 0.1 above it.
LoopFrames ==
  {Face(Relaxed),
   [Face([Relaxed EXCEPT !.smile = Milli(30)])
      EXCEPT !.pt[1] = Pt(Milli(600), Milli(500))],
   [Face([Relaxed EXCEPT !.eyeL = Milli(2)])
      EXCEPT !.pt[1] = Pt(Milli(500), Milli(400))]}

\* Mutant: every tick with a ready video starts a cycle.
admits_always(processing) == TRUE

\* The flag is left set when rendering threw inside the completion handler.
inFlightAfter_stuckOnThrow(outcome) == outcome = "renderFailed"

\* lines 159 and 162: isProcessing at the end of a cycle.  The then-handler
\* clears it as its last statement; when processFrame rejects, or a statement
\* of the then-handler throws, the catch handler chained to it clears it.
inFlightAfter(outcome) == FALSE

\* line 137: skip the frame if the previous one is still being processed
admits(processing) == ~processing

\* The body of renderLoop.  hasVideo: getVideoElement does not throw;
\* trackerIsReady: processFrame does not reject at once; videoReady: the
\* video's readyState is HAVE_ENOUGH_DATA.  A processFrame call that rejects
\* at once is settled by the catch handler before anything else runs.
renderLoop(hasVideo, trackerIsReady, videoReady) ==
  /\ IF ~hasVideo
     THEN /\ lastTick' = "threw"
          /\ UNCHANGED <<isProcessing, cycles, lastCycle>>
     ELSE IF ~videoReady
     THEN /\ lastTick' = "notReady"
          /\ UNCHANGED <<isProcessing, cycles, lastCycle>>
     ELSE IF ~admits(isProcessing)
     THEN /\ lastTick' = "dropped"
          /\ UNCHANGED <<isProcessing, cycles, lastCycle>>
     ELSE IF ~trackerIsReady
     THEN /\ lastTick' = "admitted"
          /\ isProcessing' = inFlightAfter("rejected")
          /\ lastCycle' =
               [outcome |-> "rejected", log |-> << >>, detected |-> FALSE,
                result |-> NullResult]
          /\ UNCHANGED cycles
     ELSE /\ lastTick' = "admitted"
          /\ isProcessing' = TRUE
          /\ cycles' = Append(cycles, [stage |-> "sending", log |-> << >>])
          /\ UNCHANGED lastCycle
  /\ animationFrameId' = "id"
  /\ rafPending' = TRUE

\* The render loop is started as soon as the camera is initialised.
reachesRenderLoop_afterCamera(cameraOk, trackerOk) == cameraOk

\* start() lines 72-89: the renderLoop() call is the last statement of the try
\* block, after both awaits; a rejected await leaves the block for the catch.
reachesRenderLoop(cameraOk, trackerOk) == cameraOk /\ trackerOk

\* initializeApplication up to the first await of start(): the compatibility
\* check, RenderingEngine.initialize and CameraManager.initialize's request.
Start ==
  /\ appPc = "loaded"
  /\ \E compatible \in BOOLEAN :
       IF compatible
       THEN /\ appPc' = "cameraInit"
            /\ borderColor' = updateBorder("center")
            /\ UNCHANGED errorText
       ELSE /\ appPc' = "failed"
            /\ errorText' = "browser not supported"
            /\ UNCHANGED borderColor
  /\ UNCHANGED <<pc, landmarks, trackerVars, matcherVars, callVars,
                 historyVars, state, videoElement, ready, lastResult,
                 isProcessing, animationFrameId, rafPending, cycles,
                 lastCycle, lastTick, cameraError, uiVars, instanceVars>>

\* CameraManager.initialize rejects with a CameraError (a plain object).  The
\* error callback calls handleError with the CameraError's message, the catch
\* of start() calls handleError again and start() rejects, and at last the
\* catch of initializeApplication calls displayError.  Each call overwrites
\* what the one before it wrote.
CameraInitRejects ==
  /\ appPc = "cameraInit"
  /\ \E native \in NativeErrors :
       LET mapped == mapError(native)
           thrown == Thrown(FALSE, mapped.message)
           afterCallback == [state EXCEPT !.error = mapped.message]
       IN /\ cameraError' = mapped
          /\ state' = [afterCallback EXCEPT !.error = startCatchMessage(thrown)]
          /\ errorText' = mainCatchMessage(thrown)
  /\ IF reachesRenderLoop(FALSE, FALSE)
     THEN renderLoop(FALSE, FALSE, FALSE)
     ELSE UNCHANGED <<isProcessing, animationFrameId, rafPending, cycles,
                      lastCycle, lastTick>>
  /\ appPc' = "failed"
  /\ UNCHANGED <<pc, landmarks, trackerVars, matcherVars, callVars,
                 historyVars, borderColor, videoElement, ready, lastResult,
                 uiVars, instanceVars>>

\* The Error FaceTracker.initialize throws when the FaceMesh script is missing.
FaceMeshNotLoaded ==
  Thrown(TRUE, "MediaPipe FaceMesh not loaded. Ensure CDN scripts are included.")

\* CameraManager.initialize resolves: start() goes on to
\* FaceTracker.initialize and, if that succeeds, to the first renderLoop call.
CameraInitResolves ==
  /\ appPc = "cameraInit"
  /\ videoElement' = TRUE
  /\ directionThreshold' = Milli(50)
  /\ \E faceMeshLoads \in BOOLEAN, videoReady \in BOOLEAN :
       /\ IF faceMeshLoads
          THEN /\ ready' = TRUE
               /\ state' = [state EXCEPT !.cameraActive = TRUE,
                                         !.trackerReady = TRUE]
               /\ appPc' = "running"
               /\ UNCHANGED errorText
          ELSE /\ state' =
                    [state EXCEPT
                       !.cameraActive = TRUE,
                       !.error = startCatchMessage(FaceMeshNotLoaded)]
               /\ errorText' = mainCatchMessage(FaceMeshNotLoaded)
               /\ appPc' = "failed"
               /\ UNCHANGED ready
       /\ IF reachesRenderLoop(TRUE, faceMeshLoads)
          THEN renderLoop(TRUE, faceMeshLoads, videoReady)
          ELSE UNCHANGED <<isProcessing, animationFrameId, rafPending,
                           cycles, lastCycle, lastTick>>
  /\ UNCHANGED <<pc, landmarks, direction, matcherVars, callVars, historyVars,
                 borderColor, lastResult, cameraError, uiVars, instanceVars>>

\* The browser runs the requestAnimationFrame callback.
RenderLoopTick ==
  /\ rafPending
  /\ \E videoReady \in BOOLEAN : renderLoop(videoElement, ready, videoReady)
  /\ UNCHANGED <<pc, landmarks, trackerVars, matcherVars, callVars,
                 historyVars, appPc, state, errorText, borderColor,
                 videoElement, ready, lastResult, cameraError, uiVars,
                 instanceVars>>

\* FaceTracker.handleResults, called by the landmark model while a send is in
\* progress: no face, or the landmarks of one face.
HandleResults ==
  /\ ready
  /\ \E i \in 1..Len(cycles) :
       /\ cycles[i].stage = "sending"
       /\ \/ /\ lastResult' = NoFace
             /\ cycles' =
                  [cycles EXCEPT
                     ![i] = [stage |-> "delivered",
                             log |-> Append(@.log, "extract")]]
             /\ UNCHANGED <<pc, landmarks, direction, matcherVars, callVars,
                            historyVars>>
          \/ \E l \in LoopFrames :
               /\ direction' = calculateDirection(l, directionThreshold)
               /\ Analyze(l)
               /\ pc' = "returned"
               /\ lastResult' = detectedResult(l, direction', exprResult')
               /\ cycles' =
                    [cycles EXCEPT
                       ![i] = [stage |-> "delivered",
                               log |-> @.log \o <<"extract", "direction",
                                                  "expression">>]]
  /\ UNCHANGED <<directionThreshold, appPc, state, errorText, borderColor,
                 videoElement, ready, isProcessing, animationFrameId,
                 rafPending, lastCycle, lastTick, cameraError, uiVars,
                 instanceVars>>

\* The sequence q without its i-th element.
RemoveAt(q, i) == SubSeq(q, 1, i - 1) \o SubSeq(q, i + 1, Len(q))

\* faceMesh.send resolves (after the results were delivered, or after the
\* tracker was disposed): processFrame returns lastResult or its default and
\* the then-handler of renderLoop runs; renderFrame may throw, which the catch
\* handler takes.
CycleResolves ==
  /\ \E i \in 1..Len(cycles), renderThrows \in BOOLEAN :
       /\ cycles[i].stage = "delivered" \/ ~ready
       /\ LET trackingResult == processFrameResult(lastResult)
          IN IF renderThrows
             THEN /\ lastCycle' =
                       [outcome |-> "renderFailed", log |-> cycles[i].log,
                        detected |-> trackingResult.detected,
                        result |-> trackingResult]
                  /\ UNCHANGED <<state, borderColor>>
             ELSE /\ borderColor' = updateBorder(trackingResult.direction)
                  /\ \E f \in updateFPS(state.fps) :
                       state' =
                         [state EXCEPT
                            !.currentDirection = trackingResult.direction,
                            !.emoji = trackingResult.emoji,
                            !.expression = trackingResult.expression,
                            !.fps = f]
                  /\ lastCycle' =
                       [outcome |-> "rendered",
                        log |-> Append(cycles[i].log, "render"),
                        detected |-> trackingResult.detected,
                        result |-> trackingResult]
       /\ cycles' = RemoveAt(cycles, i)
  /\ isProcessing' = inFlightAfter(lastCycle'.outcome)
  /\ UNCHANGED <<pc, landmarks, trackerVars, matcherVars, callVars,
                 historyVars, appPc, errorText, videoElement, ready,
                 lastResult, animationFrameId, rafPending, lastTick,
                 cameraError, uiVars, instanceVars>>

\* faceMesh.send rejects: the catch handler of renderLoop runs.
CycleRejects ==
  /\ \E i \in 1..Len(cycles) :
       /\ cycles[i].stage = "sending" \/ ~ready
       /\ lastCycle' =
            [outcome |-> "rejected", log |-> cycles[i].log,
             detected |-> FALSE, result |-> NullResult]
       /\ cycles' = RemoveAt(cycles, i)
  /\ isProcessing' = inFlightAfter(lastCycle'.outcome)
  /\ UNCHANGED <<pc, landmarks, trackerVars, matcherVars, callVars,
                 historyVars, appPc, state, errorText, borderColor,
                 videoElement, ready, lastResult, animationFrameId,
                 rafPending, lastTick, cameraError, uiVars, instanceVars>>

\* The Space key while state.cameraActive: ApplicationController.stop() and
\* displayError.
Stop ==
  /\ appPc = "running"
  /\ IF animationFrameId # "null"
     THEN rafPending' = FALSE /\ animationFrameId' = "null"
     ELSE UNCHANGED <<rafPending, animationFrameId>>
  /\ videoElement' = FALSE
  /\ state' = [state EXCEPT !.cameraActive = FALSE, !.trackerReady = FALSE]
  /\ ready' = FALSE
  /\ lastResult' = NullResult
  /\ errorText' = "Camera stopped"
  /\ appPc' = "stopped"
  /\ UNCHANGED <<pc, landmarks, trackerVars, matcherVars, callVars,
                 historyVars, borderColor, isProcessing, cycles, lastCycle,
                 lastTick, cameraError, uiVars, instanceVars>>

Init ==
  /\ pc = "input"
  /\ landmarks = noLandmarks
  /\ InitTracker
  /\ InitMatcher
  /\ InitApp
  /\ InitUI
  /\ InitInstances

Next ==
  \/ Start
  \/ CameraInitRejects
  \/ CameraInitResolves
  \/ RenderLoopTick
  \/ HandleResults
  \/ CycleResolves
  \/ CycleRejects
  \/ Stop

Spec == Init /\ [][Next]_vars

\* ------------------------------------------------------- the emoji counters

RECOGNITION_INTERVAL == 1000

\* Date.now() at the first updateUI call, in ms: an instant long after the
\* epoch, from which lastRecognitionTime = 0 is more than a second away.
StartTime == 100000

\* The time between two updateUI calls, in ms; requestAnimationFrame may
\* deliver the next call much later than one frame.
TimeGaps == {250, 750, 1000}

\* Cap on the time the counters are watched after the first call.
MaxElapsed == 3000

\* The tracking results whose fields the render loop copies into the state.
UiResults ==
  {NoFace}
    \cup {detectedResult(Face(Relaxed), "center",
                         expressionResult(e, Milli(500))) :
            e \in {"neutral", "happy", "wink"}}

\* Mutant: no minimum time between two recognitions.
recognised_unthrottled(expression, last, now, lastTime) ==
  expression # "undefined" /\ expression # last

\* main.ts lines 120-122: the condition under which updateUI counts
recognised(expression, last, now, lastTime) ==
  /\ expression # "undefined"
  /\ expression # last
  /\ now - lastTime >= RECOGNITION_INTERVAL

\* One updateUI call: the first one, made by initializeApplication, or one
\* made by requestAnimationFrame.
UpdateUI ==
  /\ \E now \in {StartTime} \cup {currentTime + g : g \in TimeGaps} :
       /\ currentTime = 0 <=> now = StartTime
       /\ now <= StartTime + MaxElapsed
       /\ currentTime' = now
       /\ IF recognised(state.expression, uiLastExpression, now,
                        lastRecognitionTime)
          THEN /\ uiLastExpression' = state.expression
               /\ lastRecognitionTime' = now
               /\ IF state.expression \in DOMAIN emojiCounts
                  THEN /\ emojiCounts' =
                            [emojiCounts EXCEPT ![state.expression] = @ + 1]
                       /\ lastIncrement' =
                            [at |-> now, expression |-> state.expression]
                  ELSE UNCHANGED <<emojiCounts, lastIncrement>>
          ELSE UNCHANGED <<uiLastExpression, lastRecognitionTime,
                           emojiCounts, lastIncrement>>
  /\ UNCHANGED <<pc, landmarks, trackerVars, matcherVars, callVars,
                 historyVars, appVars, instanceVars>>

\* The then-handler of renderLoop copies a tracking result into the state.
StateUpdated ==
  /\ \E r \in UiResults :
       /\ state' = [state EXCEPT !.currentDirection = r.direction,
                                 !.emoji = r.emoji,
                                 !.expression = r.expression]
       /\ lastCycle' =
            [outcome |-> "rendered",
             log |-> IF r.detected
                     THEN <<"extract", "direction", "expression", "render">>
                     ELSE <<"extract", "render">>,
             detected |-> r.detected,
             result |-> r]
  /\ UNCHANGED <<pc, landmarks, trackerVars, matcherVars, callVars,
                 historyVars, appPc, errorText, borderColor, videoElement,
                 ready, lastResult, isProcessing, animationFrameId,
                 rafPending, cycles, lastTick, cameraError, uiVars,
                 instanceVars>>

InitCounters ==
  /\ pc = "input"
  /\ landmarks = noLandmarks
  /\ InitTracker
  /\ InitMatcher
  /\ InitApp
  /\ InitUI
  /\ InitInstances

NextCounters == UpdateUI \/ StateUpdated

SpecCounters == InitCounters /\ [][NextCounters]_vars

\* ------------------------------------------------- claims: calculateDirection

\* A calculateDirection call on a full frame has returned.
DirReturnedFull == pc = "returned" /\ landmarks.length >= 468

NoseRightFrame == createMockLandmarks(Milli(700), Milli(500))

NoseLeftFrame == createMockLandmarks(Milli(300), Milli(500))

\* Twice the horizontal offset, from the coordinates themselves.
TwiceOffsetX == 2 * landmarks.pt[1].x - (landmarks.pt[33].x + landmarks.pt[263].x)

\* Three times the vertical offset, from the coordinates themselves.
ThriceOffsetY ==
  3 * landmarks.pt[1].y
    - (landmarks.pt[33].y + landmarks.pt[263].y + landmarks.pt[152].y)

C5_TieGoesHorizontal ==
  DirReturnedFull
  => /\ (Abs(horizontalOffset(landmarks)) >= Abs(verticalOffset(landmarks))
           /\ Abs(horizontalOffset(landmarks)) > directionThreshold)
          => direction \in {"left", "right"}
     /\ Abs(horizontalOffset(landmarks)) >= Abs(verticalOffset(landmarks))
          => direction \notin {"up", "down"}
     /\ Abs(verticalOffset(landmarks)) > Abs(horizontalOffset(landmarks))
          => direction \notin {"left", "right"}

\* C6: when the vertical axis is the axis tested, an offset above the threshold
\* yields DOWN and an offset below minus the threshold yields UP; with face
\* centre (0.5,0.5) and threshold 0.15 the nose tip (0.5,0.3) gives UP and
\* (0.5,0.7) gives DOWN.
C6_VerticalDirect ==
  /\ (DirReturnedFull
        /\ ~(Abs(horizontalOffset(landmarks)) > Abs(verticalOffset(landmarks))))
     => /\ verticalOffset(landmarks) > directionThreshold => direction = "down"
        /\ verticalOffset(landmarks) < 0 - directionThreshold
             => direction = "up"
  /\ (pc = "returned" /\ directionThreshold = Milli(150)
        /\ landmarks = createMockLandmarks(Milli(500), Milli(300)))
     => direction = "up"
  /\ (pc = "returned" /\ directionThreshold = Milli(150)
        /\ landmarks = createMockLandmarks(Milli(500), Milli(700)))
     => direction = "down"

C6_Witness ==
  /\ pc = "returned"
  /\ directionThreshold = Milli(150)
  /\ landmarks = createMockLandmarks(Milli(500), Milli(300))
  /\ direction = "up"

\* C9: calculateDirection called with fewer than 468 landmarks, the empty list
\* included, returns CENTER for every threshold.
C9_ShortFrameIsCenter ==
  (pc = "returned" /\ landmarks.length < 468) => direction = "center"

\* A short frame whose points, were they read, would give a direction.
C9_Witness ==
  /\ pc = "returned"
  /\ landmarks.length = 467
  /\ TwiceOffsetX > 2 * directionThreshold
  /\ ThriceOffsetY = 0
  /\ direction = "center"

\* C18: when the nose tip lies exactly at the face centre computed from the
\* eyes and the chin (both offsets 0), calculateDirection returns CENTER for
\* every threshold > 0.
C18_CentredNoseIsCenter ==
  (DirReturnedFull /\ TwiceOffsetX = 0 /\ ThriceOffsetY = 0
     /\ directionThreshold > 0)
  => direction = "center"

\* The frame of the tests with the nose tip at (0.5, 0.5), threshold 0.05.
C18_Witness ==
  /\ pc = "returned"
  /\ landmarks = createMockLandmarks(Milli(500), Milli(500))
  /\ TwiceOffsetX = 0
  /\ ThriceOffsetY = 0
  /\ directionThreshold = Milli(50)
  /\ direction = "center"

\* Six times the offset on the winning axis, the axis of the larger
\* magnitude, from the coordinates themselves (on a tie the two magnitudes
\* are the same).
SixWinningOffset ==
  IF 3 * Abs(TwiceOffsetX) > 2 * Abs(ThriceOffsetY)
  THEN 3 * TwiceOffsetX
  ELSE 2 * ThriceOffsetY

\* C23: the comparison with the threshold on the winning axis is strict: an
\* offset whose magnitude equals the threshold yields CENTER, and a direction
\* other than CENTER is returned only when the winning offset is above
\* +threshold or below -threshold.
C23_StrictThreshold ==
  DirReturnedFull
  => /\ Abs(SixWinningOffset) = 6 * directionThreshold => direction = "center"
     /\ direction # "center"
          => \/ SixWinningOffset > 6 * directionThreshold
             \/ SixWinningOffset < 0 - 6 * directionThreshold

\* Horizontal offset +0.15 with threshold 0.15, vertical offset 0.05.
C23_Witness ==
  /\ DirReturnedFull
  /\ directionThreshold = Milli(150)
  /\ TwiceOffsetX = 2 * Milli(150)
  /\ ThriceOffsetY = 3 * Milli(50)
  /\ direction = "center"

\* C24: for every full frame and every threshold >= 0 calculateDirection
\* returns CENTER if and only if max(|horizontalOffset|, |verticalOffset|) <=
\* threshold, so the losing axis neither produces nor suppresses a direction.
C24_CenterIffWithinThreshold ==
  DirReturnedFull
  => (direction = "center"
        <=> /\ 3 * Abs(TwiceOffsetX) <= 6 * directionThreshold
            /\ 2 * Abs(ThriceOffsetY) <= 6 * directionThreshold)

\* Vertical offset -0.2 beats horizontal offset +0.15, both beyond the
\* threshold 0.05: the result is UP.
C24_Witness ==
  /\ DirReturnedFull
  /\ directionThreshold = Milli(50)
  /\ TwiceOffsetX = 2 * Milli(150)
  /\ ThriceOffsetY = 0 - 3 * Milli(200)
  /\ direction = "up"

\* ------------------------------------------------------ claims: EmojiMatcher

\* An analyzeExpression call on a full frame has returned.
ExprReturnedFull == pc = "returned" /\ landmarks.length >= 468

\* C1 as stated: the reported expression changes to a new label only after
\* that label has been the raw classification of at least 2 consecutive full
\* frames; a single frame classified differently from the reported label never
\* changes the reported label.
C1_TwoStableFrames ==
  (ExprReturnedFull /\ exprResult.expression # reportedBefore) => rawRepeated

RuleOrder ==
  <<"wink", "kiss", "surprised", "tongue_out", "very_happy", "happy", "sad",
    "thinking", "sleepy", "confused", "angry">>

RuleHolds(e, m) ==
  CASE e = "wink" ->
         /\ Abs(m.leftEyeOpenness - m.rightEyeOpenness) > Milli(12)
         /\ (m.leftEyeOpenness < Milli(15) \/ m.rightEyeOpenness < Milli(15))
    [] e = "kiss" -> m.lipsPucker > Milli(15) /\ m.mouthWidth < Milli(120)
    [] e = "surprised" ->
         m.mouthOpenness > Milli(45) /\ m.eyebrowRaise > Milli(35)
    [] e = "tongue_out" ->
         /\ m.mouthOpenness > Milli(50)
         /\ m.mouthWidth > Milli(140)
         /\ m.smileLevel > Milli(10)
    [] e = "very_happy" ->
         m.smileLevel > Milli(45) /\ m.mouthWidth > Milli(150)
    [] e = "happy" -> m.smileLevel > Milli(25)
    [] e = "sad" -> m.smileLevel < 0 - Milli(15)
    [] e = "thinking" ->
         /\ absExceedsMilli(m.headTilt, 30)
         /\ m.eyebrowRaise > Milli(25)
         /\ m.eyebrowRaise < Milli(40)
    [] e = "sleepy" ->
         /\ m.leftEyeOpenness < Milli(18)
         /\ m.rightEyeOpenness < Milli(18)
         /\ Abs(m.leftEyeOpenness - m.rightEyeOpenness) < Milli(5)
    [] e = "confused" ->
         /\ m.eyebrowRaise > Milli(20)
         /\ m.eyebrowRaise < Milli(35)
         /\ Abs(m.smileLevel) < Milli(15)
    [] e = "angry" ->
         /\ m.eyebrowRaise < Milli(25)
         /\ m.smileLevel < Milli(5)
         /\ m.mouthWidth < Milli(130)

\* The label of the first rule of RuleOrder that holds, NEUTRAL if none does.
FirstMatch(m) ==
  LET hits == {i \in 1..Len(RuleOrder) : RuleHolds(RuleOrder[i], m)}
  IN IF hits = {} THEN "neutral"
     ELSE RuleOrder[CHOOSE i \in hits : \A j \in hits : i <= j]

\* C7: for every full frame the raw classification is the label of the first
\* rule, in the fixed order WINK, KISS, SURPRISED, TONGUE_OUT, VERY_HAPPY,
\* HAPPY, SAD, THINKING, SLEEPY, CONFUSED, ANGRY, whose predicate holds of the
\* computed metrics, and NEUTRAL exactly when none holds.
C7_FirstMatchWins ==
  ExprReturnedFull
  => /\ detectedExpression = FirstMatch(calculateMetrics(landmarks))
     /\ (detectedExpression = "neutral"
           <=> \A i \in 1..Len(RuleOrder) :
                 ~RuleHolds(RuleOrder[i], calculateMetrics(landmarks)))

\* A frame on which an earlier and two later rules hold: the earlier one wins.
C7_Witness ==
  /\ ExprReturnedFull
  /\ detectedExpression = "very_happy"
  /\ RuleHolds("happy", calculateMetrics(landmarks))
  /\ RuleHolds("sleepy", calculateMetrics(landmarks))

\* C8: analyzeExpression called with fewer than 468 landmarks, the empty list
\* included, returns NEUTRAL with the NEUTRAL glyph and confidence 0, whatever
\* the rolling state is.
C8_ShortFrameIsNeutral ==
  (pc = "returned" /\ landmarks.length < 468)
  => exprResult
       = [expression |-> "neutral", emoji |-> "U+1F610", confidence |-> 0]

\* A short frame given to a matcher whose rolling state is not the initial one.
C8_Witness ==
  /\ pc = "returned"
  /\ landmarks.length = 467
  /\ lastExpression = "happy"
  /\ expressionStability = 2
  /\ exprResult.expression = "neutral"
  /\ exprResult.confidence = 0

\* C12: every analyzeExpression call returns one of the 12 expression labels
\* together with the glyph emojiMap gives that label, and on a full frame the
\* returned label is lastExpression as the call's update left it.
C12_LabelAndGlyph ==
  pc = "returned"
  => /\ exprResult.expression \in Expression
     /\ Cardinality(Expression) = 12
     /\ exprResult.emoji = emojiMap[exprResult.expression]
     /\ landmarks.length >= 468 => exprResult.expression = lastExpression

\* A full frame that changed the reported label to KISS.
C12_Witness ==
  /\ ExprReturnedFull
  /\ reportedBefore # "kiss"
  /\ lastExpression = "kiss"
  /\ exprResult.expression = "kiss"
  /\ exprResult.emoji = "U+1F618"

\* The confidence constant of each rule, as the specification lists them.
RuleConfidence ==
  [e \in Expression |->
     CASE e \in {"wink", "surprised", "very_happy"} -> Milli(900)
       [] e \in {"kiss", "happy"} -> Milli(850)
       [] e \in {"tongue_out", "sad", "sleepy"} -> Milli(800)
       [] e \in {"thinking", "angry"} -> Milli(750)
       [] e = "confused" -> Milli(700)
       [] e = "neutral" -> Milli(500)]

\* C13: on a full frame the confidence analyzeExpression returns is the
\* constant of the rule that fired in that call (WINK 0.9, KISS 0.85,
\* SURPRISED 0.9, TONGUE_OUT 0.8, VERY_HAPPY 0.9, HAPPY 0.85, SAD 0.8,
\* THINKING 0.75, SLEEPY 0.8, CONFUSED 0.7, ANGRY 0.75, NEUTRAL 0.5), whatever
\* the rolling state, the earlier calls and the margin over the thresholds
\* are, and it lies within [0.5, 0.9].
C13_ConfidencePerRule ==
  ExprReturnedFull
  => /\ exprResult.confidence = RuleConfidence[detectedExpression]
     /\ exprResult.confidence >= Milli(500)
     /\ exprResult.confidence <= Milli(900)

\* SAD fired by a wide margin for the third time in a row, after other calls.
C13_Witness ==
  /\ ExprReturnedFull
  /\ detectedExpression = "sad"
  /\ calculateMetrics(landmarks).smileLevel < 0 - Milli(50)
  /\ expressionStability = 2
  /\ exprResult.confidence = Milli(800)

\* One analyzeExpression call, from the fields before it to the fields after
\* it: the frame and the raw label are those of the call just made.
StabilityTransition ==
  /\ (landmarks'.length >= 468 /\ detectedExpression' = lastExpression)
       => /\ expressionStability' = expressionStability + 1
          /\ lastExpression' = lastExpression
  /\ (landmarks'.length >= 468 /\ detectedExpression' # lastExpression)
       => /\ expressionStability' = 0
          /\ lastExpression' = detectedExpression'
  /\ landmarks'.length >= 468
       => (expressionStability' = 0 <=> detectedExpression' # lastExpression)
  /\ landmarks'.length < 468
       => UNCHANGED <<lastExpression, expressionStability>>

RollingStateOK ==
  /\ lastExpression \in Expression
  /\ expressionStability \in Nat
  /\ pc = "input" => (lastExpression = "neutral" /\ expressionStability = 0)

\* A step that brings the rolling state back to (NEUTRAL, 0) from another
\* value is a call on a full frame whose raw label, NEUTRAL, differs from the
\* committed label.
BackToInitialOnlyByFrame ==
  (<<lastExpression', expressionStability'>> = <<"neutral", 0>>
     /\ <<lastExpression, expressionStability>> # <<"neutral", 0>>)
  => /\ landmarks'.length >= 468
     /\ detectedExpression' = "neutral"
     /\ detectedExpression' # lastExpression

\* C21: a new EmojiMatcher holds (NEUTRAL, 0); in every reachable state
\* expressionStability is a non-negative integer and lastExpression one of
\* the 12 labels; and nothing sets the state back to its initial value but a
\* full frame whose raw label differs from the committed one.
C21_RollingState == [](RollingStateOK) /\ [][BackToInitialOnlyByFrame]_vars

\* A NEUTRAL frame after two ANGRY frames: the state is (NEUTRAL, 0) again.
C21_Witness ==
  /\ ExprReturnedFull
  /\ lastExpression = "neutral"
  /\ expressionStability = 0
  /\ reportedBefore = "angry"
  /\ lastRaw = "neutral"

\* The metrics of the frame just classified respect their dependencies: the
\* distances are non-negative and the eye difference is that of the two eye
\* openness values.
MetricsConsistent ==
  LET m == calculateMetrics(landmarks)
  IN /\ m.mouthOpenness >= 0
     /\ m.leftEyeOpenness >= 0
     /\ m.rightEyeOpenness >= 0
     /\ m.mouthWidth >= 0
     /\ m.lipsPucker >= 0
     /\ m.eyeDifference = Abs(m.leftEyeOpenness - m.rightEyeOpenness)

\* C25: each of the 12 expression labels is the raw classification of some
\* full frame, the metrics being those the code computes from the frame, so
\* no rule of the chain is shadowed completely by the rules before it.
C25_AllLabelsReachable ==
  /\ \A e \in Expression :
       \E l \in MatcherFrames :
         /\ l.length >= 468
         /\ detectExpression(calculateMetrics(l)).expression = e
  /\ ExprReturnedFull => MetricsConsistent

\* The last rule of the chain, ANGRY, fired on a frame on which no earlier
\* rule holds.
C25_Witness ==
  /\ ExprReturnedFull
  /\ MetricsConsistent
  /\ detectedExpression = "angry"
  /\ \A i \in 1..10 : ~RuleHolds(RuleOrder[i], calculateMetrics(landmarks))

\* C26 as stated: for every full frame given to analyzeExpression the
\* denominator of the head tilt, rightEye.x - leftEye.x + 0.0001, is not zero,
\* so calculateHeadTilt divides by a non-zero number and returns a finite
\* number.
C26_TiltDenominatorNonZero ==
  ExprReturnedFull => calculateHeadTilt(landmarks).den # 0

\* ----------------------------------------------------------- claims: start-up

\* C14 as stated: when CameraManager.initialize has failed with a CameraError
\* of any type and both start() and the entry point have handled it, the
\* error-text element and ApplicationState.error hold the type-specific
\* message of that CameraError, not a generic message.
C14_TypeSpecificMessage ==
  (appPc = "failed" /\ cameraError # NoCameraError)
  => /\ cameraError.type \in CameraErrorTypes
     /\ errorText = cameraError.message
     /\ state.error = cameraError.message

\* ------------------------------------------------- claims: matcher instances

\* What an EmojiMatcher holds and last returned after being given the frames
\* of fed, one after the other, and nothing else.
RECURSIVE Replay(_)
Replay(fed) ==
  IF fed = << >>
  THEN [lastExpression |-> "neutral", expressionStability |-> 0,
        result |-> NoExpressionResult]
  ELSE LET before == Replay(SubSeq(fed, 1, Len(fed) - 1))
           r == analyzeExpression(fed[Len(fed)], before.lastExpression,
                                  before.expressionStability)
       IN [lastExpression |-> r.lastExpression,
           expressionStability |-> r.expressionStability,
           result |-> r.result]

\* The fields and the latest output of every instance are those its own
\* frames give.
OwnFramesOnly ==
  \A i \in MatcherIds :
    /\ matchers[i].lastExpression = Replay(matchers[i].fed).lastExpression
    /\ matchers[i].expressionStability
         = Replay(matchers[i].fed).expressionStability
    /\ matchers[i].result = Replay(matchers[i].fed).result

\* A call on one instance leaves every other instance as it was.
OthersUntouched ==
  \A i \in MatcherIds :
    matchers'[i].fed = matchers[i].fed => matchers'[i] = matchers[i]

\* C15: two EmojiMatcher instances share no rolling state: a call on one
\* leaves lastExpression and expressionStability of the other unchanged, and
\* what an instance holds and returns depends only on the frames given to
\* that instance.
C15_NoSharedState == [](OwnFramesOnly) /\ [][OthersUntouched]_vars

\* Both instances have been called, in turn, and have diverged.
C15_Witness ==
  /\ matchers["first"].lastExpression = "happy"
  /\ matchers["first"].expressionStability = 1
  /\ matchers["second"].lastExpression = "wink"
  /\ matchers["second"].expressionStability = 0
  /\ Len(matchers["second"].fed) = 2

\* ------------------------------------------------------ claims: emoji counters

\* A step that changes a counter adds 1 to the counter of the current
\* expression and to no other, the current expression is not the one counted
\* last, and the time read is at least RECOGNITION_INTERVAL after the time of
\* the increment before it.
ThrottledIncrement ==
  emojiCounts' # emojiCounts
  => /\ UpdateUI
     /\ state.expression \in Expression
     /\ emojiCounts' = [emojiCounts EXCEPT ![state.expression] = @ + 1]
     /\ state.expression # lastIncrement.expression
     /\ lastIncrement.at >= 0
          => currentTime' - lastIncrement.at >= 1000

\* C16: any two increments of the emoji counters made by updateUI are at
\* least 1000 ms apart, and a counter is incremented only when the current
\* expression differs from the expression counted last.
C16_ThrottledCounters == [][ThrottledIncrement]_vars

\* NEUTRAL was counted at the first call and HAPPY exactly 1000 ms later; a
\* call 750 ms after that saw WINK and counted nothing.
C16_Witness ==
  /\ emojiCounts["neutral"] = 1
  /\ emojiCounts["happy"] = 1
  /\ emojiCounts["wink"] = 0
  /\ lastIncrement = [at |-> StartTime + 1000, expression |-> "happy"]
  /\ state.expression = "wink"
  /\ currentTime = StartTime + 1750

\* A step never lowers a counter, and a step that changes a counter adds 1
\* to exactly one counter: that of the expression the tracker reported for
\* the last rendered frame, in which a face was detected.
CountsDetectedOnly ==
  /\ \A e \in Expression : emojiCounts'[e] >= emojiCounts[e]
  /\ emojiCounts' # emojiCounts
       => /\ lastCycle.outcome = "rendered"
          /\ lastCycle.detected
          /\ lastCycle.result.expression = state.expression
          /\ \E e \in Expression :
               emojiCounts' = [emojiCounts EXCEPT ![e] = @ + 1]

\* C29 as stated: all emoji counters start at 0 and a counter is incremented
\* only when the face tracker has reported that expression for a frame with a
\* detected face: as long as no face has been detected every counter stays at
\* 0, each increment adds exactly 1 to exactly one counter, and counters
\* never decrease.
C29_CountsOnlyDetectedFaces ==
  /\ [](currentTime = 0 => \A e \in Expression : emojiCounts[e] = 0)
  /\ [][CountsDetectedOnly]_vars

\* ------------------------------------------------------------ claims: border

\* No two directions have the same colour.
PairwiseDistinct(colors) ==
  \A a \in HeadDirection, b \in HeadDirection : a # b => colors[a] # colors[b]

\* C19: DEFAULT_CONFIG.borders and the map built into RenderingEngine each
\* give the five head directions pairwise distinct colours, and
\* updateBorder(direction) sets the colour of the border element to the colour
\* mapped to that direction: after initialize it is that of CENTER, after a
\* rendered frame that of the frame's direction.
C19_BorderColours ==
  /\ DOMAIN borderColors = HeadDirection
  /\ DOMAIN builtInBorderColors = HeadDirection
  /\ PairwiseDistinct(borderColors)
  /\ PairwiseDistinct(builtInBorderColors)
  /\ appPc = "cameraInit" => borderColor = borderColors["center"]
  /\ lastCycle.outcome = "rendered"
       => borderColor = borderColors[lastCycle.result.direction]

\* A frame with the head turned up was rendered after one with the head
\* turned left.
C19_Witness ==
  /\ lastCycle.outcome = "rendered"
  /\ lastCycle.result # NullResult
  /\ lastCycle.result.direction = "up"
  /\ borderColor = "#9C27B0"
  /\ lastRaw = "wink"
  /\ reportedBefore = "happy"

\* The frames of fed that have at least 468 landmarks, in their order.
RECURSIVE FullOnly(_)
FullOnly(fed) ==
  IF fed = << >> THEN << >>
  ELSE IF fed[1].length >= 468 THEN <<fed[1]>> \o FullOnly(Tail(fed))
  ELSE FullOnly(Tail(fed))

\* Every instance is as if the short frames had never been given to it: its
\* fields, and the result of a full-frame call, are those of the full frames
\* alone; a short-frame call itself reports NEUTRAL.
AsIfShortFramesSkipped ==
  \A i \in MatcherIds :
    LET fed == matchers[i].fed
        skipped == Replay(FullOnly(fed))
    IN /\ matchers[i].lastExpression = skipped.lastExpression
       /\ matchers[i].expressionStability = skipped.expressionStability
       /\ (fed # << >> /\ fed[Len(fed)].length >= 468)
            => matchers[i].result = skipped.result
       /\ (fed # << >> /\ fed[Len(fed)].length < 468)
            => /\ matchers[i].result.expression = "neutral"
               /\ matchers[i].result.confidence = 0

\* A call with a short frame leaves the two fields of its instance as they
\* were.
ShortCallKeepsFields ==
  \A i \in MatcherIds :
    (Len(matchers'[i].fed) > Len(matchers[i].fed)
       /\ matchers'[i].fed[Len(matchers'[i].fed)].length < 468)
    => /\ matchers'[i].lastExpression = matchers[i].lastExpression
       /\ matchers'[i].expressionStability = matchers[i].expressionStability

\* C22: an analyzeExpression call with fewer than 468 landmarks leaves
\* lastExpression and expressionStability unchanged, reporting NEUTRAL without
\* committing it, so the next full-frame call behaves as if the short-frame
\* call had not happened.
C22_ShortFrameNoEffect ==
  [](AsIfShortFramesSkipped) /\ [][ShortCallKeepsFields]_vars

\* HAPPY, a short frame, HAPPY again: the second HAPPY frame counts as the
\* repetition of the first.
C22_Witness ==
  /\ Len(matchers["first"].fed) = 3
  /\ matchers["first"].fed[2].length < 468
  /\ matchers["first"].fed[1].length >= 468
  /\ matchers["first"].fed[3].length >= 468
  /\ matchers["first"].lastExpression = "happy"
  /\ matchers["first"].expressionStability = 1
  /\ matchers["first"].result.expression = "happy"

\* start() was called and rejected: initializeApplication's catch has shown
\* the error.
StartRejected == appPc = "failed" /\ errorText # "browser not supported"

\* After a rejected start() the state holds a message, the tracker is not
\* marked ready, and renderLoop has neither run nor been scheduled; when it
\* was the camera that failed, the tracker was not initialised at all.
RejectedStartLeavesNoLoop ==
  StartRejected
    => /\ state.error # "null"
       /\ errorText \notin {"none", "null"}
       /\ ~state.trackerReady
       /\ ~rafPending
       /\ animationFrameId = "null"
       /\ lastTick = "none"
       /\ cycles = << >>
       /\ ~isProcessing
       /\ ~state.cameraActive => (~ready /\ ~videoElement)

\* renderLoop has run, or is scheduled, only in an application whose camera
\* and tracker were both initialised.
LoopOnlyAfterBoth ==
  /\ (lastTick # "none" \/ rafPending) => appPc \in {"running", "stopped"}
  /\ appPc = "running"
       => /\ state.cameraActive /\ videoElement
          /\ state.trackerReady /\ ready
          /\ state.error = "null"

\* The step in which renderLoop runs for the first time ends with the camera
\* active and the tracker ready; the tracker becomes ready only once the
\* camera is initialised.
FirstLoopAfterBoth ==
  /\ (lastTick = "none" /\ lastTick' # "none")
       => (state'.cameraActive /\ state'.trackerReady /\ appPc' = "running")
  /\ (~ready /\ ready') => (videoElement' /\ state'.cameraActive)

\* C30: ApplicationController.start() initialises the camera first, then the
\* face tracker, and invokes the render loop for the first time only after
\* both have succeeded; if either initialisation rejects, the render loop is
\* never scheduled, state.error is set to a non-null message,
\* state.trackerReady stays false and start() rejects.
C30_LoopOnlyAfterBothInits ==
  /\ [](RejectedStartLeavesNoLoop /\ LoopOnlyAfterBoth)
  /\ [][FirstLoopAfterBoth]_vars

\* The camera was initialised and the tracker's initialisation rejected.
C30_Witness ==
  /\ StartRejected
  /\ state.cameraActive
  /\ ~state.trackerReady
  /\ state.error = FaceMeshNotLoaded.message
  /\ errorText = FaceMeshNotLoaded.message
  /\ ~rafPending
  /\ lastTick = "none"

\* --------------------------------------------------------- claims: render loop

\* The steps of one cycle, in the order the claim gives them.
CycleSteps == <<"extract", "direction", "expression", "render">>

\* The logs a cycle may show: the steps taken so far, in order; a frame
\* without a face skips the two classifiers.
OrderedLogs ==
  {<< >>, <<"extract">>, <<"render">>, <<"extract", "render">>,
   <<"extract", "direction", "expression">>, CycleSteps}

\* At most one processFrame call is outstanding, it is outstanding exactly
\* while isProcessing is set, and the steps of every cycle are in order.
OneCycleInOrder ==
  /\ Len(cycles) <= 1
  /\ isProcessing <=> Len(cycles) = 1
  /\ \A i \in 1..Len(cycles) : cycles[i].log \in OrderedLogs
  /\ lastCycle.log \in OrderedLogs
  /\ (lastCycle.outcome = "rendered" /\ lastCycle.detected)
       => lastCycle.log = CycleSteps

\* A renderLoop call made while a cycle is in flight starts nothing and leaves
\* the cycle as it is; a cycle starts only in a renderLoop call made when none
\* is in flight, so nothing is started later on behalf of a dropped tick and
\* the steps of the earlier cycle, rendering included, are then over.
TickDropsOrAdmits ==
  /\ (RenderLoopTick /\ Len(cycles) > 0)
       => (cycles' = cycles /\ isProcessing' = isProcessing
             /\ lastTick' \in {"dropped", "notReady"})
  /\ Len(cycles') > Len(cycles)
       => /\ RenderLoopTick \/ CameraInitResolves
          /\ cycles = << >>
          /\ lastTick' = "admitted"
          /\ lastCycle.outcome \in {"none", "rendered", "renderFailed",
                                    "rejected"}

NothingInFlight == cycles = << >> /\ ~isProcessing

\* A step that ends a cycle, whichever way, leaves the flag clear.
SettlingClearsFlag ==
  (CycleResolves \/ CycleRejects) => ~isProcessing'

\* A renderLoop call made after a cycle has settled is not dropped: with a
\* video that has enough data it admits a cycle, and it schedules the next
\* call.
TickAfterSettledAdmits ==
  (RenderLoopTick /\ cycles = << >> /\ lastCycle.outcome # "none")
    => /\ lastTick' \in {"admitted", "notReady"}
       /\ rafPending'

\* C27: a processing cycle that ends, whether processFrame resolves or
\* rejects or rendering throws inside the completion handler, always clears
\* the in-flight flag isProcessing, so a failed frame never stalls the render
\* loop: after any settled cycle the next render-loop tick with a ready video
\* admits a new cycle.
C27_SettledCycleClearsFlag ==
  /\ [](cycles = << >> => NothingInFlight)
  /\ [][SettlingClearsFlag /\ TickAfterSettledAdmits]_vars

\* Rendering threw in the completion handler of the last cycle, and the tick
\* after it admitted the cycle now in flight.
C27_Witness ==
  /\ lastCycle.outcome = "renderFailed"
  /\ lastTick = "admitted"
  /\ Len(cycles) = 1
  /\ cycles[1].stage = "sending"
  /\ isProcessing

\* After stop() no renderLoop call is pending.
NoTickAfterStop ==
  appPc = "stopped" => (~rafPending /\ animationFrameId = "null")

\* After stop() a step renders nothing, leaves ApplicationState and the
\* border as they are and schedules no renderLoop call.
QuietAfterStop ==
  appPc = "stopped"
    => /\ state' = state
       /\ borderColor' = borderColor
       /\ lastCycle'.outcome = "rendered" => lastCycle' = lastCycle
       /\ ~rafPending'

\* C28 as stated: once ApplicationController.stop() has been called, no
\* further renderFrame call is made and ApplicationState (currentDirection,
\* emoji, expression, fps) is no longer modified by frame results, also when
\* a processing cycle was in flight at the moment stop() was called, and no
\* render-loop tick is scheduled after stop().
C28_NothingAfterStop == [](NoTickAfterStop) /\ [][QuietAfterStop]_vars

\* ------------------------------------------------- claims: tracking results

\* The contract of a FaceTrackingResult.
WellFormedResult(r) ==
  IF r.detected
  THEN /\ r.confidence = ONE
       /\ r.expression \in Expression
       /\ r.emoji # "undefined"
       /\ r.emoji = emojiMap[r.expression]
  ELSE /\ r.direction = "center"
       /\ r.landmarks.length = 0
       /\ r.confidence = 0
       /\ r.emoji = "undefined"
       /\ r.expression = "undefined"

\* C11: every tracking result FaceTracker produces, the one handleResults
\* stores and the one processFrame returns (its default included), has
\* direction CENTER, no landmarks, confidence 0 and no emoji or expression when
\* detected is false, and confidence exactly 1.0 and an expression with its
\* own glyph when detected is true.
C11_ResultContract ==
  /\ lastResult # NullResult => WellFormedResult(lastResult)
  /\ lastCycle.result # NullResult => WellFormedResult(lastCycle.result)

\* processFrame returned its default after the tracker was disposed, and
\* before that handleResults had stored the result of a winking face.
C11_Witness ==
  /\ lastResult = NullResult
  /\ lastCycle.result = NoFace
  /\ lastCycle.log = <<"extract", "direction", "expression", "render">>
  /\ detectedExpression = "wink"

====
